---- MODULE Spec2Model ----
(***************************************************************************)
(* Model of the Teleios growth tool: the county-file extractor             *)
(* (utils/excel_processor.py, extract_county_data), its diagnostics sink   *)
(* (utils/debug_logger.py) and the master-workbook pipeline                *)
(* (process_county_files and the functions it calls).                      *)
(*                                                                         *)
(* Cell values are records [k, s, v]: k is the Python type of the value    *)
(* openpyxl hands out (none, str, int, float, formula), s the text of a    *)
(* str or formula, v the number.  A float carries its value in millionths  *)
(* (0.42 is 420000), an int carries itself, and a formula carries the      *)
(* sheet row its relative cell references are on.                          *)
(***************************************************************************)
EXTENDS Integers, Sequences, FiniteSets, TLC

VARIABLES
    file,          \* the county file of the last extract_county_data call
    outcome,       \* what that call returned
    trace,         \* debug_logger.extraction_trace
    log,           \* the messages given to debug_logger.logger
    epc,           \* "ready" before the call, "done" after it
    has_raw,       \* the master workbook has a sheet named Raw
    has_counties,  \* the master workbook has a sheet named Counties
    raw,           \* the rows of Raw below the header
    counties,      \* the rows of Counties below the header
    ppc,           \* where process_county_files stands
    next_row,      \* next_row of process_county_files
    batch,         \* the records merged so far by this call
    nfiles,        \* the county files this call has gone through
    merged,        \* the county files gone through over all calls
    runs,          \* the calls of process_county_files made
    output,        \* what the last call returned: "file" or "none"
    raw0,          \* Raw as the call loaded it
    counties0,     \* Counties as the call loaded it
    master0,       \* Raw of the master workbook before the first call
    sink,          \* a second call of extract_county_data on the same file,
                   \* with a diagnostics sink that answers as it likes
    requests,      \* the calls of process_county_files that run side by
                   \* side, each with the workbook it loaded
    pos,           \* the read position of the stream of the county file
    calls          \* the calls of extract_county_data that run side by side

evars == <<file, outcome, trace, log, epc>>
pvars == <<has_raw, has_counties, raw, counties, ppc, next_row, batch, nfiles,
           merged, runs, output, raw0, counties0, master0>>
xvars == <<sink, requests, pos, calls>>
vars == <<evars, pvars, xvars>>

-----------------------------------------------------------------------------
(* Bounds of the model *)

MaxRows == 3
MaxRuns == 2
MaxFiles == 2
MaxInitRows == 2
MaxInitLookup == 2

-----------------------------------------------------------------------------
(* Cell values *)

Micro == 1000 * 1000

PyNone == [k |-> "none", s |-> "", v |-> 0]
PyText(t) == [k |-> "str", s |-> t, v |-> 0]
PyInt(n) == [k |-> "int", s |-> "", v |-> n]
PyFloat(m) == [k |-> "float", s |-> "", v |-> m]
PyFormula(t, row) == [k |-> "formula", s |-> t, v |-> row]

IsNumber(c) == c.k \in {"int", "float"}

\* the value of a number in millionths
Millionths(c) == IF c.k = "int" THEN c.v * Micro ELSE c.v

\* Python truthiness of a cell value: None, '', 0 and 0.0 are falsy
Truthy(c) ==
    CASE c.k = "none" -> FALSE
      [] c.k = "str" -> c.s # ""
      [] c.k = "formula" -> TRUE
      [] OTHER -> c.v # 0

\* Python ==: numbers compare by value whatever their type, text by content
PyEq(a, b) ==
    IF IsNumber(a) /\ IsNumber(b) THEN Millionths(a) = Millionths(b)
    ELSE a.k = b.k /\ a.s = b.s

\* x > 1 on a number
Gt1(c) == Millionths(c) > Micro

\* round half to even of m to a multiple of q
RoundTo(m, q) ==
    LET lo == (m \div q) * q
        r == m - lo
    IN  IF 2 * r < q THEN lo
        ELSE IF 2 * r > q THEN lo + q
        ELSE IF (lo \div q) % 2 = 0 THEN lo ELSE lo + q

Pow10(n) == CASE n = 0 -> 1 [] n = 1 -> 10 [] n = 2 -> 100 [] n = 3 -> 1000
              [] n = 4 -> 10000 [] n = 5 -> 100000 [] OTHER -> Micro

\* round(x, nd): an int stays the int, a float is rounded to nd decimals
PyRound(c, nd) ==
    IF c.k = "int" THEN c ELSE PyFloat(RoundTo(c.v, Pow10(6 - nd)))

\* int(round(x))
PyIntRound(c) ==
    IF c.k = "int" THEN c ELSE PyInt(RoundTo(c.v, Micro) \div Micro)

\* x / 100 (true division: the result is a float)
PyDiv100(c) == PyFloat(Millionths(c) \div 100)

-----------------------------------------------------------------------------
(* Text of a number: Python's f-string and Excel's CONCAT *)

RECURSIVE StripZeros(_, _)
\* the decimals of f (0 < f < 10^width, width digits) without trailing zeros
StripZeros(f, width) ==
    IF f % 10 = 0 THEN StripZeros(f \div 10, width - 1)
    ELSE LET pad[n \in 0..6] ==
                 IF n = 0 THEN "" ELSE
                 IF f < Pow10(width - n) THEN "0" \o pad[n - 1] ELSE ""
         IN  pad[width - 1] \o ToString(f)

Decimals(m) == StripZeros(m % Micro, 6)

\* f"{x}" of Python
PyStr(c) ==
    CASE c.k = "none" -> "None"
      [] c.k \in {"str", "formula"} -> c.s
      [] c.k = "int" -> ToString(c.v)
      [] OTHER -> IF c.v % Micro = 0 THEN ToString(c.v \div Micro) \o ".0"
                  ELSE ToString(c.v \div Micro) \o "." \o Decimals(c.v)

\* the text Excel's CONCAT makes of a cell: a whole number has no decimals
ExcelText(c) ==
    CASE c.k = "none" -> ""
      [] c.k \in {"str", "formula"} -> c.s
      [] c.k = "int" -> ToString(c.v)
      [] OTHER -> IF c.v % Micro = 0 THEN ToString(c.v \div Micro)
                  ELSE ToString(c.v \div Micro) \o "." \o Decimals(c.v)

-----------------------------------------------------------------------------
(* County files *)

FirstDataRow == 10
ExpectedRows == 15
SmallFile == 1000

\* file names are sequences of tokens
RECURSIVE Join(_)
Join(toks) == IF toks = <<>> THEN "" ELSE Head(toks) \o Join(Tail(toks))

\* str.replace(old, ''): every occurrence of the token goes
Remove(toks, old) == SelectSeq(toks, LAMBDA t : t # old)

HasPathSep(toks) == \E i \in 1..Len(toks) : toks[i] = "/"

\* str.lower() of the last part of a file name
LowerExt(t) ==
    CASE t = ".XLSX" -> ".xlsx"
      [] t = ".XLS" -> ".xls"
      [] OTHER -> t

\* allowed_file: the name has a '.', and what follows the last one is, in
\* lower case, xlsx or xls
AllowedFile(toks) ==
    /\ toks # <<>>
    /\ LowerExt(toks[Len(toks)]) \in {".xlsx", ".xls"}

\* county_file.filename.replace('.xlsx', '').replace('.xls', '')
CountyName(toks) == Join(Remove(Remove(toks, ".xlsx"), ".xls"))

\* str.lower() of a sheet-name token
Lower(t) ==
    CASE t = "County" -> "county"
      [] t = "COUNTY" -> "county"
      [] t = "Trend" -> "trend"
      [] t = "TREND" -> "trend"
      [] t = "Summary" -> "summary"
      [] OTHER -> t

Contains(name, word) == \E i \in 1..Len(name) : Lower(name[i]) = word

IsCountyTrend(name) == Contains(name, "trend") /\ Contains(name, "county")

-----------------------------------------------------------------------------
(* The diagnostics sink: utils/debug_logger.py *)

OldExcel == "Old Excel format (XLS)"
CorruptZip == "Looks like ZIP/XLSX but corrupted"
UnknownFormat == "Unknown format. First bytes"

\* DebugLogger.log_file_info: the classification of the stream.  f.kind says
\* what zipfile.ZipFile and the first 8 bytes show of it.
LogFileInfo(f) ==
    [file_size |-> f.size,
     is_zip_file |-> f.kind \in {"xlsx", "zip_other"},
     zip_test |-> f.kind \in {"pk_corrupt", "legacy", "unknown"},
     file_type |-> CASE f.kind = "pk_corrupt" -> CorruptZip
                     [] f.kind = "legacy" -> OldExcel
                     [] f.kind = "unknown" -> UnknownFormat
                     [] OTHER -> "None",
     error |-> f.kind = "probe_error"]

\* one entry of extraction_trace
Entry(step, row, action, year, medicare, n1, n2, text) ==
    [step |-> step, row |-> row, action |-> action, year |-> year,
     medicare |-> medicare, checked |-> n1, extracted |-> n2, text |-> text]

FileInfoEntry(f) ==
    Entry("file_info", 0, "", PyNone, PyNone, 0, 0, LogFileInfo(f).file_type)

\* DebugLogger.log_sheet_detection
SelectedSheet(names) ==
    IF \E i \in 1..Len(names) : IsCountyTrend(names[i])
    THEN CHOOSE i \in 1..Len(names) :
             /\ IsCountyTrend(names[i])
             /\ \A j \in 1..(i - 1) : ~IsCountyTrend(names[j])
    ELSE 0

SheetEntry(names) ==
    Entry("sheet_detection", SelectedSheet(names), "", PyNone, PyNone, 0, 0, "")

\* DebugLogger.log_row_extraction
RowEntry(row, w, action) ==
    Entry("row", row, action, w.B, w.C, 0, 0, "")

\* DebugLogger.log_extraction_summary
SummaryEntry(county, checked, extracted, reason) ==
    Entry("summary", 0, reason, PyNone, PyNone, checked, extracted, county)

\* DebugLogger.save_trace_to_file: open() of debug_traces/<name>_<time>.json
\* fails when <name> names a directory below debug_traces, which
\* os.makedirs("debug_traces") does not create
SaveTraceRaises(name) == HasPathSep(name)

-----------------------------------------------------------------------------
(* The row extractor: extract_county_data *)

MetricCols == {"E", "G", "H", "I", "J", "K", "L", "M", "N", "O", "P"}

\* value is None or value == ''
IsEmpty(c) == c.k = "none" \/ (c.k = "str" /\ c.s = "")

\* a scan that goes on until both anchors of a row are empty
StopsAtBothEmpty(w) == IsEmpty(w.B) /\ IsEmpty(w.C)

\* the stop test of the scan
StopsAt(w) == IsEmpty(w.B) \/ IsEmpty(w.C)

\* isinstance(value, (int, float)) of both anchors
NumericAnchors(w) == IsNumber(w.B) /\ IsNumber(w.C)

\* value if value else 0
OrZero(c) == IF Truthy(c) THEN c ELSE PyInt(0)

\* a normalisation that divides from 1 on: value / 100 when value >= 1
NormalizeFromOne(c) == IF Millionths(c) >= Micro THEN PyDiv100(c) ELSE c

\* the percentage normalisation: value / 100 when value > 1
Normalize(c) == IF Gt1(c) THEN PyDiv100(c) ELSE c

\* building row_data raises TypeError when a metric cell holds text:
\* 'n/a' > 1, round('n/a', 1) and round('n/a') all raise
RecordRaises(w) == \E col \in MetricCols : Truthy(w[col]) /\ ~IsNumber(w[col])

\* row_data of one sheet row
MakeRecord(county, w) ==
    [county |-> PyText(county),
     state |-> PyText("NC"),
     year |-> w.B,
     medicare_enrollment |-> IF Truthy(w.C) THEN PyIntRound(w.C) ELSE PyInt(0),
     resident_deaths |-> IF Truthy(w.E) THEN PyRound(w.E, 1) ELSE PyInt(0),
     hospice_deaths |-> IF Truthy(w.G) THEN PyIntRound(w.G) ELSE PyInt(0),
     patients_served |-> IF Truthy(w.I) THEN PyIntRound(w.I) ELSE PyInt(0),
     patient_days |-> IF Truthy(w.K) THEN PyIntRound(w.K) ELSE PyInt(0),
     gip_patients |-> IF Truthy(w.O) THEN PyIntRound(w.O) ELSE PyInt(0),
     hospice_penetration |-> PyRound(Normalize(OrZero(w.H)), 4),
     gip_days_percent |-> PyRound(Normalize(OrZero(w.M)), 4),
     days_per_patient |-> IF Truthy(w.J) THEN PyRound(w.J, 2) ELSE PyInt(0),
     avg_daily_census |-> IF Truthy(w.L) THEN PyRound(w.L, 2) ELSE PyInt(0),
     payments_per_patient |-> IF Truthy(w.P) THEN PyRound(w.P, 2) ELSE PyInt(0),
     avg_gip_census |-> IF Truthy(w.N) THEN PyRound(w.N, 1) ELSE PyInt(0)]

\* the state of the scan: the records, the trace, the rows checked, and how
\* the loop ended ("end" of sheet, "stop" at an empty anchor, "raise")
ScanStart(tr) == [data |-> <<>>, trace |-> tr, checked |-> 0, ended |-> "end"]

RECURSIVE ScanRows(_, _, _, _)
\* for row in range(10, trend_sheet.max_row + 1): rows[i] is sheet row 9 + i
ScanRows(county, rows, i, acc) ==
    IF i > Len(rows) THEN acc
    ELSE
      LET w == rows[i]
          row == FirstDataRow + i - 1
          seen == [acc EXCEPT !.checked = @ + 1]
      IN  IF StopsAt(w)
          THEN [seen EXCEPT !.trace = Append(@, RowEntry(row, w, "stop")),
                            !.ended = "stop"]
          ELSE IF NumericAnchors(w)
          THEN IF RecordRaises(w)
               THEN [seen EXCEPT !.ended = "raise"]
               ELSE ScanRows(county, rows, i + 1,
                        [seen EXCEPT
                           !.data = Append(@, MakeRecord(county, w)),
                           !.trace = Append(@, RowEntry(row, w, "extract"))])
          ELSE ScanRows(county, rows, i + 1,
                   [seen EXCEPT !.trace = Append(@, RowEntry(row, w, "skip"))])

\* what a call of extract_county_data leaves: status is "data" (a list was
\* returned), "none" (None was returned) or "raise" (an exception left the
\* function); loaded says load_workbook was called
Outcome(status, data, loaded, tr, lg) ==
    [status |-> status, data |-> data, loaded |-> loaded, trace |-> tr, log |-> lg]

\* the except clauses: log the error, save the trace, return None
Handler(f, loaded, tr, lg, what) ==
    IF SaveTraceRaises(f.filename)
    THEN Outcome("raise", <<>>, loaded, tr, Append(lg, <<"error", what>>))
    ELSE Outcome("none", <<>>, loaded, tr, Append(lg, <<"error", what>>))

\* a locator that goes on to the last sheet whose name matches
TrendSheetLast(names) ==
    IF \E i \in 1..Len(names) : IsCountyTrend(names[i])
    THEN CHOOSE i \in 1..Len(names) :
             /\ IsCountyTrend(names[i])
             /\ \A j \in (i + 1)..Len(names) : ~IsCountyTrend(names[j])
    ELSE 0

RECURSIVE TrendSheetFrom(_, _)
\* for sheet_name in sheet_names: if ... : trend_sheet = ...; break
TrendSheetFrom(names, i) ==
    IF i > Len(names) THEN 0
    ELSE IF Contains(names[i], "trend") /\ Contains(names[i], "county") THEN i
    ELSE TrendSheetFrom(names, i + 1)

\* the sheet the extractor reads: its place in sheet_names, 0 for None
TrendSheet(names) == TrendSheetFrom(names, 1)

\* the message of the rejection, made of what log_file_info returned
RejectMessage(info) ==
    IF info.file_size < SmallFile THEN "corrupted or not a valid Excel file"
    ELSE "not a valid Excel file: " \o info.file_type

\* extract_county_data with file_info == info, the value the call of
\* debug_logger.log_file_info returned
ExtractWithInfo(f, info) ==
    LET t1 == <<FileInfoEntry(f)>>
        names == [i \in 1..Len(f.sheets) |-> f.sheets[i].name]
        t2 == Append(t1, SheetEntry(names))
        sel == TrendSheet(names)
        county == CountyName(f.filename)
        scan == ScanRows(county, f.sheets[sel].rows, 1, ScanStart(t2))
        reason == IF scan.checked >= Len(f.sheets[sel].rows)
                  THEN "Reached end of sheet" ELSE "Empty row detected"
        t3 == Append(scan.trace,
                     SummaryEntry(county, scan.checked, Len(scan.data), reason))
        l3 == <<<<"info", "Loading workbook">>, <<"info", "Selected sheet">>>>
    IN  IF ~info.is_zip_file /\ info.file_type # OldExcel
        THEN Outcome("none", <<>>, FALSE, t1, <<<<"error", RejectMessage(info)>>>>)
        ELSE IF f.kind \in {"legacy", "pk_corrupt", "unknown"}
        THEN Handler(f, TRUE, t1, <<<<"info", "Loading workbook">>>>, "Bad zip file error")
        ELSE IF f.kind # "xlsx"
        THEN Handler(f, TRUE, t1, <<<<"info", "Loading workbook">>>>, "Error extracting data")
        ELSE IF sel = 0
        THEN Outcome("none", <<>>, TRUE, t2,
                     <<<<"info", "Loading workbook">>, <<"warning", "No 'County Trend' sheet found">>>>)
        ELSE IF scan.ended = "raise"
        THEN Handler(f, TRUE, scan.trace, l3, "Error extracting data")
        ELSE IF Len(scan.data) # ExpectedRows /\ SaveTraceRaises(f.filename)
        THEN Handler(f, TRUE, t3, l3, "Error extracting data")
        ELSE Outcome("data", scan.data, TRUE, t3,
                     IF Len(scan.data) # ExpectedRows
                     THEN Append(l3, <<"warning", "Unexpected row count">>)
                     ELSE l3)

\* extract_county_data with the diagnostics sink of the program
ExtractCountyData(f) == ExtractWithInfo(f, LogFileInfo(f))

-----------------------------------------------------------------------------
(* The county files the extractor is given *)

\* one row of a county trend sheet: the 13 columns the extractor reads
SheetRow(b, c, e, h, m) ==
    [B |-> b, C |-> c, E |-> e, G |-> PyInt(200), H |-> h, I |-> PyInt(1000),
     J |-> PyNone, K |-> PyNone, L |-> PyNone, M |-> m, N |-> PyNone,
     O |-> PyNone, P |-> PyNone]

YearCells == {PyNone, PyInt(2009), PyFloat(2010 * Micro), PyText("Projections")}
EnrollCells == {PyText(""), PyInt(10000), PyText("n/a")}
PctCells == {PyNone, PyFloat(420000), PyInt(1), PyInt(42), PyFloat(42500000),
             PyInt(100), PyInt(150), PyFloat(123456)}

RowKinds ==
    {SheetRow(b, c, PyInt(500), PyFloat(420000), PyNone) :
        b \in YearCells, c \in EnrollCells}
    \cup {SheetRow(PyInt(2009), PyInt(10000), PyInt(500), h, PyInt(42)) : h \in PctCells}
    \cup {SheetRow(PyInt(2009), PyInt(10000), PyText("n/a"), PyNone, PyNone),
          SheetRow(PyInt(2009), PyInt(10000), PyNone, PyText("n/a"), PyNone),
          SheetRow(PyInt(2009), PyInt(10000), PyNone, PyNone, PyFloat(150500000))}

RowSeqs(n) == UNION {[1..k -> RowKinds] : k \in 0..n}

CountyTrend == <<"County", " ", "Trend">>

File(name, kind, size, sheets) ==
    [filename |-> name, kind |-> kind, size |-> size, sheets |-> sheets]

Sheet(name, rows) == [name |-> name, rows |-> rows]

OneRow(year) == <<SheetRow(PyInt(year), PyInt(10000), PyInt(500), PyNone, PyNone)>>

\* the names of the uploads allowed_file lets through
FileNames ==
    {n \in {<<"Burke", ".xlsx">>, <<"Polk", ".xls">>, <<"sub", "/", "Burke", ".xlsx">>,
            <<"Burke", ".XLSX">>, <<"Burke", ".xls", "_old", ".xlsx">>,
            <<"Burke", ".csv">>, <<"Burke">>} : AllowedFile(n)}

SheetLists ==
    {<<Sheet(<<"Summary">>, OneRow(2001))>>,
     <<Sheet(<<"Summary">>, OneRow(2001)), Sheet(<<"COUNTY", "TREND">>, OneRow(2002))>>,
     <<Sheet(<<"Trend", " ", "County">>, OneRow(2003)), Sheet(CountyTrend, OneRow(2004))>>,
     <<Sheet(<<"County">>, OneRow(2005)), Sheet(<<"Trend">>, OneRow(2006))>>}

CountyFiles ==
    {File(n, k, sz, <<>>) :
        n \in FileNames,
        k \in {"zip_other", "pk_corrupt", "legacy", "unknown", "probe_error"},
        sz \in {45, 5000}}
    \cup {File(<<"Burke", ".xlsx">>, "xlsx", 5000, <<Sheet(CountyTrend, rs)>>) :
            rs \in RowSeqs(MaxRows)}
    \cup {File(n, "xlsx", 5000, <<Sheet(CountyTrend, rs)>>) :
            n \in FileNames, rs \in RowSeqs(1)}
    \cup {File(<<"Burke", ".xlsx">>, "xlsx", 5000, sl) : sl \in SheetLists}

-----------------------------------------------------------------------------
(* The extractor on its own: one call of extract_county_data per file *)

NoOutcome == [status |-> "pending", data |-> <<>>, loaded |-> FALSE]

\* no second call
NoSink == [pc |-> "off", info |-> <<>>, outcome |-> NoOutcome]

NoWorkbook ==
    /\ has_raw = FALSE
    /\ has_counties = FALSE
    /\ raw = <<>>
    /\ counties = <<>>
    /\ ppc = "idle"
    /\ next_row = 0
    /\ batch = <<>>
    /\ nfiles = 0
    /\ merged = 0
    /\ runs = 0
    /\ output = "none"
    /\ raw0 = <<>>
    /\ counties0 = <<>>
    /\ master0 = <<>>
    /\ requests = <<>>

InitExtract ==
    /\ file \in CountyFiles
    /\ outcome = NoOutcome
    /\ trace = <<>>
    /\ log = <<>>
    /\ epc = "ready"
    /\ sink = NoSink
    /\ pos = 0
    /\ calls = <<>>
    /\ NoWorkbook

Extract ==
    /\ epc = "ready"
    /\ LET o == ExtractCountyData(file)
       IN  /\ outcome' = [status |-> o.status, data |-> o.data, loaded |-> o.loaded]
           /\ trace' = o.trace
           /\ log' = o.log
    /\ epc' = "done"
    /\ UNCHANGED file
    /\ UNCHANGED pvars
    /\ UNCHANGED xvars

NextExtract == Extract

SpecExtract == InitExtract /\ [][NextExtract]_vars


-----------------------------------------------------------------------------
(* The master workbook: the Raw sheet (ledger) and the Counties sheet       *)
(* (lookup).  A sheet is the sequence of its rows below the header: element *)
(* i is sheet row i + 1, and max_row is the length + 1.  Reading a cell     *)
(* below max_row creates it, so the sheet grows by empty rows.              *)

RawCols == {"A", "B", "C", "D", "E", "F", "G", "H", "I", "J", "K", "L", "M",
            "N", "O", "P", "Q", "R"}

\* the lookup columns restore_xlookup_formulas writes, with their Raw column
XLookupMappings ==
    [H |-> "E", I |-> "G", J |-> "K", K |-> "I", Z |-> "J", AB |-> "N",
     AC |-> "M", AD |-> "L", AE |-> "O", AF |-> "P", AG |-> "Q", AH |-> "R"]

XCols == DOMAIN XLookupMappings

BlankRaw == [c \in RawCols |-> PyNone]

BlankCounties ==
    [A |-> PyNone, B |-> PyNone, C |-> PyNone, D |-> PyNone, E |-> PyNone,
     G |-> PyNone, X |-> [c \in XCols |-> PyNone]]

\* a max_row that counts only the rows down to the last one with a value
MaxRowOfValues(sheet) ==
    1 + Cardinality({i \in 1..Len(sheet) :
                       \E j \in i..Len(sheet) : sheet[j] \notin {BlankRaw, BlankCounties}})

\* sheet.max_row: the header row and every row a cell of which exists
MaxRow(sheet) == Len(sheet) + 1

\* sheet[f'{col}{row}'].value
Cell(sheet, blank, row, col) ==
    IF row - 1 \in 1..Len(sheet) THEN sheet[row - 1][col] ELSE blank[col]

\* the sheet after a cell of the row was read or written: the row exists
Touch(sheet, blank, row) ==
    IF row - 1 <= Len(sheet) THEN sheet
    ELSE [i \in 1..(row - 1) |-> IF i <= Len(sheet) THEN sheet[i] ELSE blank]

\* sheet[f'{col}{row}'] = value
SetCell(sheet, blank, row, col, value) ==
    [Touch(sheet, blank, row) EXCEPT ![row - 1][col] = value]

KeyFormula(row) ==
    PyFormula("=CONCAT(A" \o ToString(row) \o ",C" \o ToString(row) \o ")", row)

\* an appender that writes the rate of the first template row as a number
DeathsPer1000Value(row) == PyFloat(50 * Micro)

\* column F of the ledger: deaths per 1,000 enrollees
DeathsPer1000(row) ==
    PyFormula("=IF(E" \o ToString(row) \o "=0,0,(G" \o ToString(row)
              \o "/E" \o ToString(row) \o ")*1000)", row)

DeathServiceRatio(row) ==
    PyFormula("=IF(G" \o ToString(row) \o "=0,0,I" \o ToString(row)
              \o "/G" \o ToString(row) \o ")", row)

XLookup(row, col, raw_max) ==
    PyFormula("=XLOOKUP(E" \o ToString(row) \o ",Raw!$D$2:$D$" \o ToString(raw_max)
              \o ",Raw!$" \o col \o "$2:$" \o col \o "$" \o ToString(raw_max) \o ")", row)

\* f"{county}{year}"
KeyValue(county, year) == PyText(PyStr(county) \o PyStr(year))

RECURSIVE FirstEmptyFrom(_, _)
\* while sheet[f'A{row}'].value is not None: row += 1
FirstEmptyFrom(raw_sheet, row) ==
    IF Cell(raw_sheet, BlankRaw, row, "A").k # "none" THEN FirstEmptyFrom(raw_sheet, row + 1)
    ELSE row

\* find_next_empty_row
FindNextEmptyRow(raw_sheet) == FirstEmptyFrom(raw_sheet, 2)

\* the cells add_county_data_to_raw writes for one record
LedgerRow(data, row) ==
    [A |-> data.county, B |-> data.state, C |-> data.year,
     D |-> KeyFormula(row),
     E |-> data.medicare_enrollment,
     F |-> DeathsPer1000(row),
     G |-> data.resident_deaths,
     H |-> DeathServiceRatio(row),
     I |-> data.hospice_deaths,
     J |-> data.hospice_penetration,
     K |-> data.patients_served,
     L |-> data.days_per_patient,
     M |-> data.patient_days,
     N |-> data.avg_daily_census,
     O |-> data.gip_days_percent,
     P |-> data.avg_gip_census,
     Q |-> data.gip_patients,
     R |-> data.payments_per_patient]

\* one iteration of the loop of add_county_data_to_raw
WriteRecord(raw_sheet, data, row) ==
    [Touch(raw_sheet, BlankRaw, row) EXCEPT ![row - 1] = LedgerRow(data, row)]

RECURSIVE AddCountyDataToRaw(_, _, _)
\* add_county_data_to_raw: the sheet after the records are written from
\* start_row on (the function returns start_row + len(county_data))
AddCountyDataToRaw(raw_sheet, county_data, start_row) ==
    IF county_data = <<>> THEN raw_sheet
    ELSE AddCountyDataToRaw(WriteRecord(raw_sheet, Head(county_data), start_row),
                            Tail(county_data), start_row + 1)

\* the Raw half of standardize_key_columns, one row
StandardizeRow(r, row) ==
    IF Truthy(r.A) /\ Truthy(r.C)
    THEN [r EXCEPT !.D = KeyFormula(row),
                   !.F = IF @.k = "none" THEN DeathsPer1000(row) ELSE @,
                   !.H = IF @.k = "none" THEN DeathServiceRatio(row) ELSE @]
    ELSE r

\* the rows the scans of the ledger visit: row 2 down to the first empty A
LedgerExtent(raw_sheet) == FindNextEmptyRow(raw_sheet) - 1

StandardizeRaw(raw_sheet) ==
    LET t == Touch(raw_sheet, BlankRaw, FindNextEmptyRow(raw_sheet))
    IN  [i \in 1..Len(t) |->
            IF i + 1 <= LedgerExtent(raw_sheet) THEN StandardizeRow(t[i], i + 1) ELSE t[i]]

\* the Counties half of standardize_key_columns
StandardizeCounties(counties_sheet) ==
    [i \in 1..Len(counties_sheet) |->
        IF Truthy(counties_sheet[i].D) /\ Truthy(counties_sheet[i].A)
        THEN [counties_sheet[i] EXCEPT !.E = KeyValue(counties_sheet[i].D, counties_sheet[i].A)]
        ELSE counties_sheet[i]]

\* (county, year) in existing_counties: tuples compare element by element
InPairs(pairs, county, year) ==
    \E p \in pairs : PyEq(p[1], county) /\ PyEq(p[2], year)

\* existing_counties of append_new_counties_to_sheet
ExistingCounties(counties_sheet) ==
    {<<counties_sheet[i].D, counties_sheet[i].A>> :
        i \in {j \in 1..Len(counties_sheet) : Truthy(counties_sheet[j].D) /\ Truthy(counties_sheet[j].A)}}

\* next_counties_row of append_new_counties_to_sheet
NextCountiesRow(counties_sheet) ==
    IF MaxRow(counties_sheet) = 1 THEN 2
    ELSE IF \E i \in 1..Len(counties_sheet) : counties_sheet[i].A.k # "none"
    THEN (CHOOSE i \in 1..Len(counties_sheet) :
              /\ counties_sheet[i].A.k # "none"
              /\ \A j \in (i + 1)..Len(counties_sheet) : counties_sheet[j].A.k = "none") + 2
    ELSE MaxRow(counties_sheet) + 1

\* the cells a new lookup row gets
LookupRow(old, county, state, year) ==
    [old EXCEPT !.A = year, !.B = year, !.C = state, !.D = county,
                !.E = KeyValue(county, year)]

RECURSIVE AppendFrom(_, _, _, _, _)
\* the while loop of append_new_counties_to_sheet over the ledger rows
AppendFrom(raw_sheet, row, counties_sheet, existing, next) ==
    IF Cell(raw_sheet, BlankRaw, row, "A").k = "none" THEN counties_sheet
    ELSE
      LET county == Cell(raw_sheet, BlankRaw, row, "A")
          state == Cell(raw_sheet, BlankRaw, row, "B")
          year == Cell(raw_sheet, BlankRaw, row, "C")
      IN  IF Truthy(county) /\ Truthy(state) /\ Truthy(year)
             /\ ~InPairs(existing, county, year)
          THEN LET t == Touch(counties_sheet, BlankCounties, next)
               IN  AppendFrom(raw_sheet, row + 1,
                       [t EXCEPT ![next - 1] = LookupRow(@, county, state, year)],
                       existing \cup {<<county, year>>}, next + 1)
          ELSE AppendFrom(raw_sheet, row + 1, counties_sheet, existing, next)

\* append_new_counties_to_sheet
AppendNewCountiesToSheet(raw_sheet, counties_sheet) ==
    AppendFrom(raw_sheet, 2, counties_sheet, ExistingCounties(counties_sheet), NextCountiesRow(counties_sheet))

\* restore_xlookup_formulas that writes the formulas into every row
RestoreXLookupFormulasAllRows(counties_sheet, raw_sheet_max_row) ==
    [i \in 1..Len(counties_sheet) |->
        [counties_sheet[i] EXCEPT
            !.X = [c \in XCols |-> XLookup(i + 1, XLookupMappings[c], raw_sheet_max_row)]]]

\* restore_xlookup_formulas
RestoreXLookupFormulas(counties_sheet, raw_sheet_max_row) ==
    [i \in 1..Len(counties_sheet) |->
        IF Truthy(counties_sheet[i].E)
        THEN [counties_sheet[i] EXCEPT
                 !.X = [c \in XCols |-> XLookup(i + 1, XLookupMappings[c], raw_sheet_max_row)]]
        ELSE counties_sheet[i]]

-----------------------------------------------------------------------------
(* The master workbooks and the county files of a batch *)

\* a ledger row as an earlier run of the pipeline left it
PipelineRow(county, year, row) ==
    [BlankRaw EXCEPT !.A = PyText(county), !.B = PyText("NC"), !.C = PyInt(year),
                     !.D = KeyFormula(row), !.E = PyInt(10000),
                     !.F = DeathsPer1000(row), !.G = PyInt(500),
                     !.H = DeathServiceRatio(row), !.I = PyInt(200),
                     !.J = PyFloat(420000)]

\* a ledger row entered by hand under an older scheme: a delimited literal
\* key, a number typed into the derived column F, nothing in H
ManualRow(county, year, row) ==
    [BlankRaw EXCEPT !.A = PyText(county), !.B = PyText("NC"), !.C = PyInt(year),
                     !.D = PyText(county \o "_" \o ToString(year)),
                     !.E = PyInt(9000), !.F = PyFloat(55000000), !.G = PyInt(495)]

\* a row of the template below the data: no county yet, the derived columns
\* already hold the workbook's own formulas
PrefilledRow(row) ==
    [BlankRaw EXCEPT
        !.F = PyFormula("=G" \o ToString(row) \o "/E" \o ToString(row) \o "*1000", row),
        !.H = PyFormula("=I" \o ToString(row) \o "/G" \o ToString(row), row)]

RawRowKinds(row) ==
    {PipelineRow("Burke", 2010, row), ManualRow("Polk", 2009, row),
     PrefilledRow(row), BlankRaw}

\* the ledgers of the master workbooks: no ledger ends in an empty row
RawSheets ==
    {sh \in UNION {[1..n -> UNION {RawRowKinds(r) : r \in 2..(MaxInitRows + 1)}] :
                      n \in 0..MaxInitRows} :
        /\ \A i \in 1..Len(sh) : sh[i] \in RawRowKinds(i + 1)
        /\ Len(sh) > 0 => sh[Len(sh)] # BlankRaw}

\* a lookup row with its key, as the pipeline writes it
KeyedLookup(county, year) ==
    [BlankCounties EXCEPT !.A = PyInt(year), !.B = PyInt(year), !.C = PyText("NC"),
                          !.D = PyText(county),
                          !.E = PyText(county \o ToString(year))]

\* a lookup row of an older scheme: a delimited key, a note in a free column
OldLookup(county, year) ==
    [BlankCounties EXCEPT !.A = PyInt(year), !.B = PyInt(year), !.C = PyText("NC"),
                          !.D = PyText(county),
                          !.E = PyText(county \o "_" \o ToString(year)),
                          !.G = PyText("checked")]

\* a row without a year: a county and a note only
NoteLookup == [BlankCounties EXCEPT !.D = PyText("Stokes"), !.G = PyText("pending")]

CountiesRowKinds ==
    {KeyedLookup("Burke", 2010), OldLookup("Polk", 2009), NoteLookup, BlankCounties}

CountiesSheets == UNION {[1..n -> CountiesRowKinds] : n \in 0..MaxInitLookup}

BurkeRows(year) ==
    <<SheetRow(year, PyInt(10000), PyInt(500), PyInt(42), PyNone)>>

\* the county files of the batches
BatchFiles ==
    {File(<<"Burke", ".xlsx">>, "xlsx", 5000, <<Sheet(CountyTrend, BurkeRows(PyInt(2010)))>>),
     File(<<"Burke", ".xlsx">>, "xlsx", 5000, <<Sheet(CountyTrend, BurkeRows(PyFloat(2010 * Micro)))>>),
     File(<<"Polk", ".xls">>, "xlsx", 5000,
          <<Sheet(CountyTrend, BurkeRows(PyInt(2009)) \o BurkeRows(PyInt(2010)))>>),
     File(<<"Polk", ".xls">>, "xlsx", 5000,
          <<Sheet(CountyTrend, <<SheetRow(PyInt(2009), PyInt(10000), PyText("n/a"), PyNone, PyNone)>>)>>),
     File(<<"Stokes", ".xlsx">>, "unknown", 45, <<>>),
     File(<<"sub", "/", "Stokes", ".xlsx">>, "legacy", 5000, <<>>)}

-----------------------------------------------------------------------------
(* process_county_files, one action for each of its steps *)

Init ==
    /\ file = File(<<>>, "unknown", 0, <<>>)
    /\ outcome = NoOutcome
    /\ trace = <<>>
    /\ log = <<>>
    /\ epc = "ready"
    /\ has_raw \in BOOLEAN
    /\ has_counties \in BOOLEAN
    /\ raw \in (IF has_raw THEN RawSheets ELSE {<<>>})
    /\ counties \in (IF has_counties /\ has_raw THEN CountiesSheets ELSE {<<>>})
    /\ ppc = "idle"
    /\ next_row = 0
    /\ batch = <<>>
    /\ nfiles = 0
    /\ merged = 0
    /\ runs = 0
    /\ output = "none"
    /\ raw0 = raw
    /\ counties0 = counties
    /\ master0 = raw
    /\ sink = NoSink
    /\ pos = 0
    /\ calls = <<>>
    /\ requests = <<>>

\* a call that goes on without the test for Raw, with an empty ledger
LoadMasterUntested ==
    /\ ppc = "idle"
    /\ runs < MaxRuns
    /\ merged < MaxFiles
    /\ raw0' = raw
    /\ counties0' = counties
    /\ batch' = <<>>
    /\ nfiles' = 0
    /\ next_row' = FindNextEmptyRow(raw)
    /\ raw' = Touch(raw, BlankRaw, FindNextEmptyRow(raw))
    /\ ppc' = "loaded"
    /\ UNCHANGED <<output, runs, has_raw, has_counties, counties, merged, master0>>
    /\ UNCHANGED evars
    /\ UNCHANGED xvars

\* load_workbook, the test for Raw, find_next_empty_row
LoadMaster ==
    /\ ppc = "idle"
    /\ runs < MaxRuns
    /\ merged < MaxFiles
    /\ raw0' = raw
    /\ counties0' = counties
    /\ batch' = <<>>
    /\ nfiles' = 0
    /\ IF has_raw
       THEN /\ next_row' = FindNextEmptyRow(raw)
            /\ raw' = Touch(raw, BlankRaw, FindNextEmptyRow(raw))
            /\ ppc' = "loaded"
            /\ UNCHANGED <<output, runs>>
       ELSE /\ ppc' = "idle"
            /\ output' = "none"
            /\ runs' = runs + 1
            /\ UNCHANGED <<raw, next_row>>
    /\ UNCHANGED <<has_raw, has_counties, counties, merged, master0>>
    /\ UNCHANGED evars
    /\ UNCHANGED xvars

\* a loop whose call ends at the exception of a county file with the
\* workbook as it stands, the rows merged so far in it
ProcessFileKeepsRows(f) ==
    /\ ppc = "loaded"
    /\ merged < MaxFiles
    /\ LET o == ExtractCountyData(f)
       IN  /\ file' = f
           /\ outcome' = [status |-> o.status, data |-> o.data, loaded |-> o.loaded]
           /\ trace' = o.trace
           /\ log' = o.log
           /\ epc' = "done"
           /\ merged' = merged + 1
           /\ IF o.status = "raise"
              THEN /\ ppc' = "idle"
                   /\ output' = "none"
                   /\ runs' = runs + 1
                   /\ UNCHANGED <<raw, counties, next_row, batch, nfiles>>
              ELSE /\ nfiles' = nfiles + 1
                   /\ IF o.status = "data" /\ o.data # <<>>
                      THEN /\ raw' = AddCountyDataToRaw(raw, o.data, next_row)
                           /\ next_row' = next_row + Len(o.data)
                           /\ batch' = batch \o o.data
                      ELSE UNCHANGED <<raw, next_row, batch>>
                   /\ UNCHANGED <<ppc, output, runs, counties>>
    /\ UNCHANGED <<has_raw, has_counties, raw0, counties0, master0>>
    /\ UNCHANGED xvars

\* one turn of the loop over county_files: extract_county_data, and
\* add_county_data_to_raw when it gave records
ProcessFile(f) ==
    /\ ppc = "loaded"
    /\ merged < MaxFiles
    /\ LET o == ExtractCountyData(f)
       IN  /\ file' = f
           /\ outcome' = [status |-> o.status, data |-> o.data, loaded |-> o.loaded]
           /\ trace' = o.trace
           /\ log' = o.log
           /\ epc' = "done"
           /\ merged' = merged + 1
           /\ IF o.status = "raise"
              THEN /\ ppc' = "idle"
                   /\ output' = "none"
                   /\ runs' = runs + 1
                   /\ raw' = raw0
                   /\ counties' = counties0
                   /\ UNCHANGED <<next_row, batch, nfiles>>
              ELSE /\ nfiles' = nfiles + 1
                   /\ IF o.status = "data" /\ o.data # <<>>
                      THEN /\ raw' = AddCountyDataToRaw(raw, o.data, next_row)
                           /\ next_row' = next_row + Len(o.data)
                           /\ batch' = batch \o o.data
                      ELSE UNCHANGED <<raw, next_row, batch>>
                   /\ UNCHANGED <<ppc, output, runs, counties>>
    /\ UNCHANGED <<has_raw, has_counties, raw0, counties0, master0>>
    /\ UNCHANGED xvars

\* standardize_key_columns
StandardizeKeyColumns ==
    /\ ppc = "loaded"
    /\ nfiles >= 1
    /\ IF has_counties
       THEN /\ raw' = StandardizeRaw(raw)
            /\ counties' = StandardizeCounties(counties)
       ELSE UNCHANGED <<raw, counties>>
    /\ ppc' = "standardized"
    /\ UNCHANGED <<has_raw, has_counties, next_row, batch, nfiles, merged, runs,
                   output, raw0, counties0, master0>>
    /\ UNCHANGED evars
    /\ UNCHANGED xvars

\* append_new_counties_to_sheet, when the workbook has a Counties sheet
AppendNewCounties ==
    /\ ppc = "standardized"
    /\ IF has_counties
       THEN /\ counties' = AppendNewCountiesToSheet(raw, counties)
            /\ raw' = Touch(raw, BlankRaw, FindNextEmptyRow(raw))
       ELSE UNCHANGED <<raw, counties>>
    /\ ppc' = "appended"
    /\ UNCHANGED <<has_raw, has_counties, next_row, batch, nfiles, merged, runs,
                   output, raw0, counties0, master0>>
    /\ UNCHANGED evars
    /\ UNCHANGED xvars

\* restore_xlookup_formulas with the max_row the ledger had when it was loaded
RestoreFormulasOldExtent ==
    /\ ppc = "appended"
    /\ IF has_counties
       THEN counties' = RestoreXLookupFormulas(counties, MaxRow(raw0))
       ELSE UNCHANGED counties
    /\ ppc' = "restored"
    /\ UNCHANGED <<has_raw, has_counties, raw, next_row, batch, nfiles, merged,
                   runs, output, raw0, counties0, master0>>
    /\ UNCHANGED evars
    /\ UNCHANGED xvars

\* restore_xlookup_formulas with raw_sheet.max_row (the formatting that
\* follows changes styles only)
RestoreFormulas ==
    /\ ppc = "appended"
    /\ IF has_counties
       THEN counties' = RestoreXLookupFormulas(counties, MaxRow(raw))
       ELSE UNCHANGED counties
    /\ ppc' = "restored"
    /\ UNCHANGED <<has_raw, has_counties, raw, next_row, batch, nfiles, merged,
                   runs, output, raw0, counties0, master0>>
    /\ UNCHANGED evars
    /\ UNCHANGED xvars

RECURSIVE Saved(_)
\* what a saved Raw sheet holds: a cell without value and style is not
\* written, so empty rows at the end are gone when the file is loaded again
Saved(sheet) ==
    IF sheet # <<>> /\ sheet[Len(sheet)] = BlankRaw
    THEN Saved(SubSeq(sheet, 1, Len(sheet) - 1))
    ELSE sheet

\* main_wb.save: the workbook is returned, and is the master of the next call
Save ==
    /\ ppc = "restored"
    /\ raw' = Saved(raw)
    /\ output' = "file"
    /\ runs' = runs + 1
    /\ ppc' = "idle"
    /\ UNCHANGED <<has_raw, has_counties, counties, next_row, batch, nfiles,
                   merged, raw0, counties0, master0>>
    /\ UNCHANGED evars
    /\ UNCHANGED xvars

Next ==
    \/ LoadMaster
    \/ \E f \in BatchFiles : ProcessFile(f)
    \/ StandardizeKeyColumns
    \/ AppendNewCounties
    \/ RestoreFormulas
    \/ Save

Spec == Init /\ [][Next]_vars

-----------------------------------------------------------------------------
(* Properties of the extractor *)

\* the file is a workbook with a county trend sheet, and the call is over
Scanned ==
    /\ epc = "done"
    /\ file.kind = "xlsx"
    /\ \E i \in 1..Len(file.sheets) : IsCountyTrend(file.sheets[i].name)

\* the rows of the sheet the extractor reads, from row 10 on
TrendRows ==
    LET i == CHOOSE i \in 1..Len(file.sheets) :
                 /\ IsCountyTrend(file.sheets[i].name)
                 /\ \A j \in 1..(i - 1) : ~IsCountyTrend(file.sheets[j].name)
    IN  file.sheets[i].rows

Blank(c) == c = PyNone \/ c = PyText("")
AnchorEmpty(w) == Blank(w.B) \/ Blank(w.C)
AnchorsNumeric(w) == w.B.k \in {"int", "float"} /\ w.C.k \in {"int", "float"}
TextMetric(w) == \E col \in MetricCols : w[col].k = "str" /\ w[col].s # ""

\* the index of the first row with an empty anchor, Len + 1 when there is none
FirstGap(rows) ==
    IF \E i \in 1..Len(rows) : AnchorEmpty(rows[i])
    THEN CHOOSE i \in 1..Len(rows) :
             AnchorEmpty(rows[i]) /\ \A j \in 1..(i - 1) : ~AnchorEmpty(rows[j])
    ELSE Len(rows) + 1

Years(recs) == [i \in 1..Len(recs) |-> recs[i].year]
AnchorYears(rows) == [i \in 1..Len(rows) |-> rows[i].B]

\* C1: the scan stops at the first row whose year or enrollment cell is
\* empty: the records returned are those of the numeric rows above that row,
\* in row order, and neither that row nor any later row gives a record or a
\* logged row decision other than the stop itself.
C1_StopAtFirstGap ==
    Scanned =>
        LET g == FirstGap(TrendRows)
            above == SubSeq(TrendRows, 1, g - 1)
        IN  /\ outcome.status = "data" =>
                Years(outcome.data) = AnchorYears(SelectSeq(above, AnchorsNumeric))
            /\ outcome.status # "data" => outcome.data = <<>>
            /\ \A k \in 1..Len(trace) :
                   trace[k].step = "row" =>
                       /\ trace[k].row <= FirstDataRow + g - 1
                       /\ trace[k].row = FirstDataRow + g - 1 => trace[k].action = "stop"

\* a sheet with a record above the gap and a valid numeric row below it
C1_Witness ==
    /\ Scanned
    /\ outcome.status = "data"
    /\ Len(outcome.data) >= 1
    /\ \E i \in 1..Len(TrendRows) :
           /\ i > FirstGap(TrendRows)
           /\ AnchorsNumeric(TrendRows[i])
           /\ ~TextMetric(TrendRows[i])

\* the number of leading rows with numeric anchors
LeadingNumeric(rows) ==
    IF \E i \in 1..Len(rows) : ~AnchorsNumeric(rows[i])
    THEN (CHOOSE i \in 1..Len(rows) :
              ~AnchorsNumeric(rows[i]) /\ \A j \in 1..(i - 1) : AnchorsNumeric(rows[j])) - 1
    ELSE Len(rows)

\* C2: when rows 10..10+n-1 hold numeric anchors and row 10+n is empty or
\* past the end of the sheet, exactly n records are returned, the i-th from
\* row 10+i-1 with that row's year.
C2_ExactRowCount ==
    Scanned =>
        LET n == LeadingNumeric(TrendRows)
        IN  (n = Len(TrendRows) \/ AnchorEmpty(TrendRows[n + 1])) =>
                /\ outcome.status = "data"
                /\ Len(outcome.data) = n
                /\ \A i \in 1..n : outcome.data[i].year = TrendRows[i].B

\* the stored value of a percentage cell, in millionths: the raw value (0
\* for an empty cell) when it is at most 1, a hundredth of it when it is
\* above 1, at the 4 decimals a percentage is stored with
StoredPct(c) ==
    LET m == IF c.k = "int" THEN c.v * Micro ELSE c.v
    IN  IF m > Micro THEN RoundTo(m \div 100, 100) ELSE RoundTo(m, 100)

\* normalising the stored value once more gives the stored value
Renormalized(stored) == PyRound(Normalize(OrZero(stored)), 4) = stored

AllExtracted == Scanned /\ outcome.status = "data" /\ Len(outcome.data) = Len(TrendRows)

\* C8 as stated: every percentage is stored as v (v <= 1) or v/100 (v > 1),
\* and normalising the stored value again changes nothing, whatever the raw
\* value was.
C8_NormalizeIdempotent ==
    AllExtracted =>
        \A i \in 1..Len(TrendRows) :
            /\ Millionths(outcome.data[i].hospice_penetration) = StoredPct(TrendRows[i].H)
            /\ Millionths(outcome.data[i].gip_days_percent) = StoredPct(TrendRows[i].M)
            /\ Renormalized(outcome.data[i].hospice_penetration)
            /\ Renormalized(outcome.data[i].gip_days_percent)

AtMost100(c) == (IF c.k = "int" THEN c.v * Micro ELSE c.v) <= 100 * Micro

\* C8 amended: every percentage is stored as v (v <= 1) or v/100 (v > 1),
\* and normalising the stored value again changes nothing when the raw value
\* was at most 100.
C8_NormalizeUpTo100 ==
    AllExtracted =>
        \A i \in 1..Len(TrendRows) :
            /\ Millionths(outcome.data[i].hospice_penetration) = StoredPct(TrendRows[i].H)
            /\ Millionths(outcome.data[i].gip_days_percent) = StoredPct(TrendRows[i].M)
            /\ AtMost100(TrendRows[i].H) => Renormalized(outcome.data[i].hospice_penetration)
            /\ AtMost100(TrendRows[i].M) => Renormalized(outcome.data[i].gip_days_percent)

\* a fraction kept (0.42) and percentage points divided (42 -> 0.42, 100 -> 1)
C8_Witness ==
    /\ AllExtracted
    /\ \E i, j, k \in 1..Len(TrendRows) :
           /\ TrendRows[i].H = PyFloat(420000)
           /\ outcome.data[i].hospice_penetration = PyFloat(420000)
           /\ TrendRows[j].H = PyInt(42)
           /\ outcome.data[j].hospice_penetration = PyFloat(420000)
           /\ TrendRows[k].H = PyInt(100)
           /\ outcome.data[k].hospice_penetration = PyFloat(Micro)

ErrorLogged == \E k \in 1..Len(log) : log[k][1] = "error"

\* C9: a stream that is no zip structure and has no legacy signature gives
\* None without load_workbook being called, with the classification in the
\* trace and an error in the log; a legacy-signature stream gives None too;
\* neither call raises.
C9_NonContainerRejected ==
    epc = "done" =>
        /\ file.kind \in {"pk_corrupt", "unknown", "probe_error"} =>
              /\ outcome.status = "none"
              /\ ~outcome.loaded
              /\ ErrorLogged
              /\ Len(trace) = 1 /\ trace[1].step = "file_info"
        /\ file.kind = "legacy" => outcome.status = "none"

\* C10: a text value in a metric cell of a row with numeric anchors does not
\* fail the file: a list is returned, and it holds the record of every other
\* numeric row above the first gap.
C10_TextMetricTolerated ==
    Scanned =>
        LET g == FirstGap(TrendRows)
            above == SubSeq(TrendRows, 1, g - 1)
            Good(w) == AnchorsNumeric(w) /\ ~TextMetric(w)
        IN  (\E i \in 1..Len(above) : AnchorsNumeric(above[i]) /\ TextMetric(above[i])) =>
                /\ outcome.status = "data"
                /\ \A i \in 1..Len(above) :
                       Good(above[i]) =>
                           \E k \in 1..Len(outcome.data) : outcome.data[k].year = above[i].B

-----------------------------------------------------------------------------
(* Properties of the pipeline *)

\* a call of process_county_files has returned a workbook
RunDone == ppc = "idle" /\ runs >= 1 /\ output = "file"

SamePair(county1, year1, county2, year2) == PyEq(county1, county2) /\ PyEq(year1, year2)

\* the ledger rows of a (county, year) pair
LedgerRowsOf(sheet, county, year) ==
    {i \in 1..Len(sheet) : SamePair(sheet[i].A, sheet[i].C, county, year)}

\* the lookup rows of a (county, year) pair
LookupRowsOf(sheet, county, year) ==
    {i \in 1..Len(sheet) : SamePair(sheet[i].D, sheet[i].A, county, year)}

\* the records of the batch for a (county, year) pair
RecordsOf(county, year) ==
    {k \in 1..Len(batch) : SamePair(batch[k].county, batch[k].year, county, year)}

OnePerPair(sheet) ==
    \A i \in 1..Len(sheet) :
        (Truthy(sheet[i].D) /\ Truthy(sheet[i].A)) =>
            Cardinality(LookupRowsOf(sheet, sheet[i].D, sheet[i].A)) = 1

\* C3: a run gives every merged (county, year) pair that the ledger already
\* held one more ledger row per merged record, and a lookup sheet with at
\* most one row per pair has at most one row per pair after the run.
C3_AppendOnlyNoDuplicateLookup ==
    RunDone =>
        /\ \A k \in 1..Len(batch) :
               LedgerRowsOf(raw0, batch[k].county, batch[k].year) # {} =>
                   Cardinality(LedgerRowsOf(raw, batch[k].county, batch[k].year))
                     = Cardinality(LedgerRowsOf(raw0, batch[k].county, batch[k].year))
                       + Cardinality(RecordsOf(batch[k].county, batch[k].year))
        /\ OnePerPair(counties0) => OnePerPair(counties)

\* C4: after a run every ledger row of before is still there, and every
\* cell of columns A-C and E-R that held something holds the same.
C4_LedgerRowsKept ==
    RunDone =>
        /\ Len(raw) >= Len(raw0)
        /\ \A i \in 1..Len(raw0) : \A col \in RawCols \ {"D"} :
               raw0[i][col] # PyNone => raw[i][col] = raw0[i][col]

\* C5: a call of add_county_data_to_raw leaves every derived cell (columns
\* F and H) that held a formula or a value as it was.
C5_DerivedWrittenOnlyIfEmpty ==
    [][(ppc = "loaded" /\ ppc' = "loaded") =>
          \A i \in 1..Len(raw) : \A col \in {"F", "H"} :
              raw[i][col] # PyNone => raw'[i][col] = raw[i][col]]_vars

\* C6: a derived ledger cell (column F or H) holds what the master workbook
\* held there before the first run, or nothing, or a formula whose cell
\* references are all on the cell's own row: the pipeline writes no number
\* into a derived cell.
C6_DerivedCellsHoldFormulas ==
    \A i \in 1..Len(raw) : \A col \in {"F", "H"} :
        \/ i <= Len(master0) /\ raw[i][col] = master0[i][col]
        \/ raw[i][col] = PyNone
        \/ raw[i][col].k = "formula" /\ raw[i][col].v = i + 1

\* two runs have written derived cells, one of them over a cell of the master
C6_Witness ==
    /\ RunDone
    /\ runs = 2
    /\ \E i \in 1..Len(raw) : i > Len(master0) /\ raw[i].F.k = "formula"
    /\ \E i \in 1..Len(master0) : raw[i].H # master0[i].H

\* the text the key cell of a ledger row shows: CONCAT(A, C) of its own row
\* for a formula, the text itself for a literal
LedgerKey(r) ==
    IF r.D.k = "formula" THEN ExcelText(r.A) \o ExcelText(r.C) ELSE ExcelText(r.D)

\* C7: after a run on a workbook with both sheets, the key of a lookup row
\* is the text the key formula gives in every ledger data row of the same
\* county and year.
C7_KeysAgree ==
    (RunDone /\ has_counties) =>
        \A i \in 1..Len(counties) :
            (Truthy(counties[i].E) /\ Truthy(counties[i].D) /\ Truthy(counties[i].A)) =>
                \A j \in 1..(LedgerExtent(raw) - 1) :
                    SamePair(raw[j].A, raw[j].C, counties[i].D, counties[i].A) =>
                        counties[i].E.s = LedgerKey(raw[j])

-----------------------------------------------------------------------------
(* Properties of the batch: failures, abort, the answer of the handler *)

\* upload_files after process_county_files: the download when a workbook
\* came back, the message and the redirect when None came back
UploadResponse(result) == IF result = "file" THEN "send_file" ELSE "redirect"

\* a step of the loop over county_files
FileStep == ppc = "loaded" /\ merged' = merged + 1

\* the county file of the step failed: no list of records came of it
FileFailed == outcome'.status \in {"none", "raise"}

\* C11: a county file that fails adds no ledger row and leaves the batch
\* going: the loop goes on to the other files, and a batch that was started
\* on a workbook ends with an output workbook.
C11_FailuresDoNotAbort ==
    [][/\ (FileStep /\ FileFailed) => (raw' = raw /\ ppc' = "loaded")
       /\ (ppc # "idle" /\ ppc' = "idle") => output' = "file"]_vars

\* C12: on a master workbook without a sheet named Raw no county file is
\* extracted or merged, every call returns None, and the handler answers
\* with the message and the redirect.
C12_MissingLedgerAborts ==
    ~has_raw =>
        /\ ppc = "idle"
        /\ epc = "ready"
        /\ merged = 0
        /\ batch = <<>>
        /\ raw = <<>>
        /\ runs >= 1 => (output = "none" /\ UploadResponse(output) = "redirect")

\* two calls were made on a workbook without Raw
C12_Witness == ~has_raw /\ runs = 2 /\ output = "none"

\* a call of process_county_files is over
CallOver == ppc = "idle" /\ runs >= 1

\* the row the first record of the call went to
FirstRow == FindNextEmptyRow(raw0)

\* the workbook holds every record of the batch, and every lookup row with
\* a key has its lookup formulas
CompleteWorkbook ==
    /\ \A k \in 1..Len(batch) :
           /\ FirstRow + k - 2 \in 1..Len(raw)
           /\ \A col \in RawCols \ {"D", "F", "H"} :
                  raw[FirstRow + k - 2][col] = LedgerRow(batch[k], FirstRow + k - 1)[col]
           /\ \A col \in {"D", "F", "H"} : raw[FirstRow + k - 2][col].k = "formula"
    /\ has_counties =>
           \A i \in 1..Len(counties) :
               Truthy(counties[i].E) =>
                   \A c \in XCols : counties[i].X[c].k = "formula"

\* C13: a call ends with a complete workbook or with None, and an
\* exception of a county file ends it with None; with None nothing of the
\* batch is left, the workbook is as the call loaded it; the handler
\* answers with the download or with the redirect.
C13_AllOrNothing ==
    CallOver =>
        /\ output \in {"file", "none"}
        /\ (has_raw /\ outcome.status = "raise") => output = "none"
        /\ output = "none" =>
               /\ raw = raw0 /\ counties = counties0
               /\ UploadResponse(output) = "redirect"
        /\ output = "file" =>
               /\ CompleteWorkbook
               /\ UploadResponse(output) = "send_file"

\* a call that was aborted by its second county file after the first was
\* merged, and a call that gave a workbook
C13_Witness ==
    /\ CallOver
    /\ output = "none"
    /\ outcome.status = "raise"
    /\ batch # <<>>

-----------------------------------------------------------------------------
(* Properties of the lookup sheet *)

\* the step of append_new_counties_to_sheet
AppendStep == ppc = "standardized" /\ ppc' = "appended" /\ has_counties

\* the lookup row holds something in one of its cells
HeldData(r) == r # BlankCounties

\* C14: append_new_counties_to_sheet leaves every lookup row that held data
\* as it was and removes no row, so what it adds is below every such row.
C14_LookupRowsKept ==
    [][AppendStep =>
          /\ Len(counties') >= Len(counties)
          /\ \A i \in 1..Len(counties) :
                 HeldData(counties[i]) => counties'[i] = counties[i]]_vars

\* a ledger row with a county and a year
DataRow(r) == Truthy(r.A) /\ Truthy(r.C)

\* C15: after a call that gave a workbook every ledger data row has the key
\* formula of its own row in column D, and every lookup row with a county
\* and a year has the text that formula shows as its key.
C15_UniformKeys ==
    RunDone =>
        /\ \A i \in 1..Len(raw) : DataRow(raw[i]) => raw[i].D = KeyFormula(i + 1)
        /\ \A i \in 1..Len(counties) :
               (Truthy(counties[i].D) /\ Truthy(counties[i].A)) =>
                   counties[i].E = PyText(ExcelText(counties[i].D) \o ExcelText(counties[i].A))

-----------------------------------------------------------------------------
(* The extractor and a diagnostics sink that answers as it likes: the same *)
(* file goes through extract_county_data twice, once with the sink of the  *)
(* program and once with a sink whose log_file_info accepts the call and   *)
(* returns sink.info                                                       *)

\* what a log_file_info may return
SinkReplies ==
    {[file_size |-> sz, is_zip_file |-> z, zip_test |-> ~z, file_type |-> t,
      error |-> FALSE] :
        sz \in {45, 5000}, z \in BOOLEAN,
        t \in {OldExcel, CorruptZip, UnknownFormat, "None"}}

\* the files of the two calls: every container kind, and the workbooks of
\* at most one row
SinkFiles ==
    {f \in CountyFiles :
        f.kind = "xlsx" => \A i \in 1..Len(f.sheets) : Len(f.sheets[i].rows) <= 1}

InitSink ==
    /\ file \in SinkFiles
    /\ outcome = NoOutcome
    /\ trace = <<>>
    /\ log = <<>>
    /\ epc = "ready"
    /\ sink \in {[pc |-> "ready", info |-> r, outcome |-> NoOutcome] : r \in SinkReplies}
    /\ pos = 0
    /\ calls = <<>>
    /\ NoWorkbook

\* the call with the other sink
ExtractWithSink ==
    /\ sink.pc = "ready"
    /\ LET o == ExtractWithInfo(file, sink.info)
       IN  sink' = [sink EXCEPT
                       !.pc = "done",
                       !.outcome = [status |-> o.status, data |-> o.data,
                                    loaded |-> o.loaded]]
    /\ UNCHANGED <<evars, pvars, requests, pos, calls>>

NextSink ==
    \/ Extract
    \/ ExtractWithSink

SpecSink == InitSink /\ [][NextSink]_vars

\* C16: the two calls on the same file end the same way and give the same
\* records, whatever the sink of the second call returned.
C16_SinkIndependent ==
    (epc = "done" /\ sink.pc = "done") =>
        /\ sink.outcome.status = outcome.status
        /\ sink.outcome.data = outcome.data

-----------------------------------------------------------------------------
(* Calls of process_county_files side by side: one call per upload request, *)
(* each with the master workbook and the county files of its request.  A    *)
(* step of a call is one of the steps of process_county_files; the steps of *)
(* the calls interleave in any order.  The workbook of a call is a local    *)
(* of the call (main_wb); debug_logger is the one object of the module.     *)

MaxRequests == 2

\* calls that all work on the workbook instance of the first call
InstanceOfFirst(r) == 1

\* the workbook instance call r works on: the one it loaded itself
Instance(r) == r

\* the uploads of a request: the master workbook and the county files
Upload(raw_sheet, counties_sheet, with_counties, files) ==
    [pc |-> "start", raw |-> raw_sheet, counties |-> counties_sheet,
     has_counties |-> with_counties, files |-> files, todo |-> files,
     next_row |-> 0, output |-> "pending",
     raw0 |-> raw_sheet, counties0 |-> counties_sheet]

BurkeFile(year) ==
    File(<<"Burke", ".xlsx">>, "xlsx", 5000, <<Sheet(CountyTrend, BurkeRows(year))>>)

PolkFile ==
    File(<<"Polk", ".xls">>, "xlsx", 5000,
         <<Sheet(CountyTrend, BurkeRows(PyInt(2009)) \o BurkeRows(PyInt(2010)))>>)

LegacyFile == File(<<"sub", "/", "Stokes", ".xlsx">>, "legacy", 5000, <<>>)

UnknownFile == File(<<"Stokes", ".xlsx">>, "unknown", 45, <<>>)

RequestBatches ==
    {<<BurkeFile(PyInt(2010))>>,
     <<UnknownFile, PolkFile>>,
     <<BurkeFile(PyFloat(2010 * Micro)), LegacyFile>>}

Uploads ==
    {Upload(<<>>, <<>>, TRUE, fs) : fs \in RequestBatches}
    \cup {Upload(<<BlankRaw, ManualRow("Polk", 2009, 3)>>,
                 <<OldLookup("Polk", 2009), NoteLookup>>, hc, fs) :
            hc \in BOOLEAN, fs \in RequestBatches}

\* a step of the loop over county_files of one call, on workbook w
MergeFile(q, w) ==
    LET o == ExtractCountyData(Head(q.todo))
    IN  IF o.status = "raise"
        THEN [q EXCEPT !.pc = "done", !.output = "none", !.todo = <<>>]
        ELSE IF o.status = "data" /\ o.data # <<>>
        THEN [q EXCEPT !.raw = AddCountyDataToRaw(w.raw, o.data, q.next_row),
                       !.next_row = q.next_row + Len(o.data),
                       !.todo = Tail(q.todo)]
        ELSE [q EXCEPT !.raw = w.raw, !.todo = Tail(q.todo)]

\* the next step of a call whose control state is q, on workbook w: the
\* result holds the control state of the call and the sheets of w after it
StepOf(q, w) ==
    CASE q.pc = "start" ->
           [q EXCEPT !.pc = "loaded",
                     !.next_row = FindNextEmptyRow(w.raw),
                     !.raw = Touch(w.raw, BlankRaw, FindNextEmptyRow(w.raw)),
                     !.counties = w.counties]
      [] q.pc = "loaded" /\ q.todo # <<>> ->
           [MergeFile(q, w) EXCEPT !.counties = w.counties]
      [] q.pc = "loaded" /\ q.todo = <<>> ->
           [q EXCEPT !.pc = "standardized",
                     !.raw = IF q.has_counties THEN StandardizeRaw(w.raw) ELSE w.raw,
                     !.counties = IF q.has_counties THEN StandardizeCounties(w.counties)
                                  ELSE w.counties]
      [] q.pc = "standardized" ->
           [q EXCEPT !.pc = "appended",
                     !.raw = IF q.has_counties
                             THEN Touch(w.raw, BlankRaw, FindNextEmptyRow(w.raw))
                             ELSE w.raw,
                     !.counties = IF q.has_counties
                                  THEN AppendNewCountiesToSheet(w.raw, w.counties)
                                  ELSE w.counties]
      [] q.pc = "appended" ->
           [q EXCEPT !.pc = "restored",
                     !.raw = w.raw,
                     !.counties = IF q.has_counties
                                  THEN RestoreXLookupFormulas(w.counties, MaxRow(w.raw))
                                  ELSE w.counties]
      [] q.pc = "restored" ->
           [q EXCEPT !.pc = "done", !.output = "file",
                     !.raw = Saved(w.raw), !.counties = w.counties]

InitConcurrent ==
    /\ file = File(<<>>, "unknown", 0, <<>>)
    /\ outcome = NoOutcome
    /\ trace = <<>>
    /\ log = <<>>
    /\ epc = "ready"
    /\ sink = NoSink
    /\ pos = 0
    /\ calls = <<>>
    /\ has_raw = TRUE
    /\ has_counties = FALSE
    /\ raw = <<>>
    /\ counties = <<>>
    /\ ppc = "idle"
    /\ next_row = 0
    /\ batch = <<>>
    /\ nfiles = 0
    /\ merged = 0
    /\ runs = 0
    /\ output = "none"
    /\ raw0 = <<>>
    /\ counties0 = <<>>
    /\ master0 = <<>>
    /\ requests \in [1..MaxRequests -> Uploads]

\* call r takes its next step; an extraction leaves its trace and its
\* messages in the debug_logger of the module
RequestStep(r) ==
    /\ requests[r].pc # "done"
    /\ LET q == requests[r]
           w == requests[Instance(r)]
           n == StepOf(q, w)
           extracting == q.pc = "loaded" /\ q.todo # <<>>
           o == ExtractCountyData(Head(q.todo))
       IN  /\ requests' =
                 [i \in 1..MaxRequests |->
                     IF i = r THEN n
                     ELSE IF i = Instance(r)
                     THEN [requests[i] EXCEPT !.raw = n.raw, !.counties = n.counties]
                     ELSE requests[i]]
           /\ trace' = IF extracting THEN o.trace ELSE trace
           /\ log' = IF extracting THEN o.log ELSE log
    /\ UNCHANGED <<file, outcome, epc, sink, pos, calls>>
    /\ UNCHANGED pvars

NextConcurrent == \E r \in 1..MaxRequests : RequestStep(r)

SpecConcurrent == InitConcurrent /\ [][NextConcurrent]_vars

RECURSIVE RunAlone(_)
\* the call of control state q processed alone, to its end
RunAlone(q) == IF q.pc = "done" THEN q ELSE RunAlone(StepOf(q, q))

\* the request as it was uploaded
Uploaded(q) == Upload(q.raw0, q.counties0, q.has_counties, q.files)

-----------------------------------------------------------------------------
\* the ledger rows that hold a county
DataRows(sheet) == {i \in 1..Len(sheet) : sheet[i].A # PyNone}

\* the county file of the step gave records
YieldedData == outcome'.status = "data" /\ outcome'.data # <<>>

\* the records of the step stand in consecutive rows from next_row on, in
\* the order of extraction, and next_row moves on by their number
Continued ==
    /\ next_row' = next_row + Len(outcome'.data)
    /\ \A k \in 1..Len(outcome'.data) :
           /\ next_row + k - 2 \in 1..Len(raw')
           /\ \A col \in RawCols \ {"D", "F", "H"} :
                  raw'[next_row + k - 2][col]
                    = LedgerRow(outcome'.data[k], next_row + k - 1)[col]

\* C18: the first county file of a batch is merged from the first free row
\* of the ledger on; every county file that gave records has them in
\* consecutive rows from the row the file before it ended at, the next row
\* is the start row plus the number of records, and the ledger has that
\* many data rows more; a county file without records changes nothing.
C18_SequentialContinuation ==
    [][(FileStep /\ ppc' = "loaded") =>
          /\ merged = 0 => next_row = FirstRow
          /\ YieldedData =>
                 /\ Continued
                 /\ Cardinality(DataRows(raw'))
                      = Cardinality(DataRows(raw)) + Len(outcome'.data)
          /\ ~YieldedData => (raw' = raw /\ next_row' = next_row)]_vars

-----------------------------------------------------------------------------
\* the ledger data rows: from row 2 down to the first empty cell of column A
LedgerData(sheet) == 1..(FindNextEmptyRow(sheet) - 2)

\* the ledger data rows whose (county, year) pair is neither in the lookup
\* sheet nor in a ledger row above
NewPairRows(ledger, lookup) ==
    {i \in LedgerData(ledger) :
        /\ LookupRowsOf(lookup, ledger[i].A, ledger[i].C) = {}
        /\ \A j \in 1..(i - 1) : ~SamePair(ledger[j].A, ledger[j].C, ledger[i].A, ledger[i].C)}

\* the last lookup row that holds anything: the end of the sheet
EndOfSheet(lookup) ==
    IF \E i \in 1..Len(lookup) : HeldData(lookup[i])
    THEN CHOOSE i \in 1..Len(lookup) :
             HeldData(lookup[i]) /\ \A j \in (i + 1)..Len(lookup) : ~HeldData(lookup[j])
    ELSE 0

\* the place of ledger row i among the rows of set S, in ledger order
PlaceIn(S, i) == Cardinality({j \in S : j <= i})

\* C19: append_new_counties_to_sheet gives every ledger data row whose
\* (county, year) pair the lookup sheet did not hold one lookup row below
\* every row that held anything, the new rows one after the other in ledger
\* order, with the year in A and B, the state in C, the county in D and the
\* literal key in E, and the pair has no other lookup row.
C19_LookupAppendComplete ==
    [][AppendStep =>
          LET new == NewPairRows(raw, counties)
          IN  \E base \in EndOfSheet(counties)..Len(counties') :
                \A i \in new :
                  LET at == base + PlaceIn(new, i)
                  IN  /\ at \in 1..Len(counties')
                      /\ counties'[at].A = raw[i].C
                      /\ counties'[at].B = raw[i].C
                      /\ counties'[at].C = raw[i].B
                      /\ counties'[at].D = raw[i].A
                      /\ counties'[at].E = KeyValue(raw[i].A, raw[i].C)
                      /\ LookupRowsOf(counties', raw[i].A, raw[i].C) = {at}]_vars

-----------------------------------------------------------------------------
\* the call of restore_xlookup_formulas of a run
RestoreStep == ppc = "appended" /\ ppc' = "restored" /\ has_counties

LookupCols == {"H", "I", "J", "K", "Z", "AB", "AC", "AD", "AE", "AF", "AG", "AH"}

\* C20: restore_xlookup_formulas gives every lookup row with a key, in each
\* of the 12 lookup columns, the formula that looks the key of the row up in
\* column D of the ledger over rows 2..max_row and returns the mapped ledger
\* column; it leaves a row without key as it was, and writes no other cell.
C20_FormulasRestored ==
    [][RestoreStep =>
          /\ Len(counties') = Len(counties)
          /\ XCols = LookupCols
          /\ \A i \in 1..Len(counties) :
                 /\ Truthy(counties[i].E) =>
                        \A c \in LookupCols :
                            counties'[i].X[c]
                              = XLookup(i + 1, XLookupMappings[c], MaxRow(raw))
                 /\ ~Truthy(counties[i].E) => counties'[i] = counties[i]
                 /\ \A col \in {"A", "B", "C", "D", "E", "G"} :
                        counties'[i][col] = counties[i][col]]_vars

\* formulas were restored in a sheet with a keyed row and a row that holds
\* data but no key
C20_Witness ==
    /\ ppc = "restored"
    /\ has_counties
    /\ \E i \in 1..Len(counties) :
           /\ Truthy(counties[i].E)
           /\ counties[i].X["AH"] = XLookup(i + 1, "R", MaxRow(raw))
    /\ \E i \in 1..Len(counties) : ~Truthy(counties[i].E) /\ HeldData(counties[i])

-----------------------------------------------------------------------------
\* the formulas of lookup row i search the ledger over rows 2..m
SearchesUpTo(i, m) ==
    \A c \in XCols : counties[i].X[c] = XLookup(i + 1, XLookupMappings[c], m)

\* the last ledger row that holds anything (1: the header row only)
LastLedgerRow ==
    IF \E i \in 1..Len(raw) : raw[i] # BlankRaw
    THEN 1 + CHOOSE i \in 1..Len(raw) :
                 raw[i] # BlankRaw /\ \A j \in (i + 1)..Len(raw) : raw[j] = BlankRaw
    ELSE 1

\* C21: in the workbook of a run every lookup row with a key, old or new,
\* holds the lookup formulas, and their search range 2..m reaches the last
\* ledger row that holds anything, the rows merged in this run included.
C21_FormulasCoverAll ==
    (RunDone /\ has_counties) =>
        \A i \in 1..Len(counties) :
            Truthy(counties[i].E) =>
                \E m \in LastLedgerRow..(Len(raw) + 2) : SearchesUpTo(i, m)

\* a run that merged records into a ledger that held rows, with a keyed
\* lookup row of before and a new one; the range ends at the row the scan
\* for the first empty cell of column A created below the last record
C21_Witness ==
    /\ RunDone
    /\ has_counties
    /\ batch # <<>>
    /\ raw0 # <<>>
    /\ Len(raw) > Len(raw0)
    /\ \E i \in 1..Len(counties0) : Truthy(counties0[i].E) /\ SearchesUpTo(i, LastLedgerRow + 1)
    /\ Len(counties) > Len(counties0)
    /\ SearchesUpTo(Len(counties), LastLedgerRow + 1)

-----------------------------------------------------------------------------
\* the rows above the first row with an empty anchor
AboveGap == SubSeq(TrendRows, 1, FirstGap(TrendRows) - 1)

\* both anchors hold something and one of them is no number
NonNumericAnchors(w) == ~AnchorEmpty(w) /\ ~AnchorsNumeric(w)

\* the trace holds the decision for sheet row 9 + i
Decided(i, action) ==
    \E k \in 1..Len(trace) :
        /\ trace[k].step = "row"
        /\ trace[k].row = FirstDataRow + i - 1
        /\ trace[k].action = action

\* the place of the record of row j among the records of the rows above the gap
RecordPlace(j) == Cardinality({m \in 1..j : AnchorsNumeric(AboveGap[m])})

\* C22: a row above the first gap whose anchors are not both numeric gives
\* no record and is logged as skipped, and every later row above the gap
\* with numeric anchors and numeric metrics has its record in the list
\* returned.
C22_SkipDoesNotStop ==
    Scanned =>
        \A i \in 1..Len(AboveGap) :
            NonNumericAnchors(AboveGap[i]) =>
                /\ Decided(i, "skip")
                /\ ~Decided(i, "extract")
                /\ \A j \in (i + 1)..Len(AboveGap) :
                       (AnchorsNumeric(AboveGap[j]) /\ ~TextMetric(AboveGap[j])) =>
                           /\ outcome.status = "data"
                           /\ RecordPlace(j) \in 1..Len(outcome.data)
                           /\ outcome.data[RecordPlace(j)].year = AboveGap[j].B

-----------------------------------------------------------------------------
(* The classifier on its own: one call of debug_logger.log_file_info per    *)
(* stream.  The stream position is an offset from the start of the stream.  *)

\* the stream after the zip test went through: file_obj.seek(0)
AfterZipTest(f) == 0

\* the stream after the test of the signature: seek(0), read(8), seek(0)
AfterSignature(f) == 0

\* the stream after a step of the probe raised; the except clause does not
\* seek.  The offsets stand for: the start (the seek to the end raised),
\* behind the 8 bytes of the signature (the seek after read(8) raised), and
\* an offset at the end of the stream (tell or seek(0) raised after
\* seek(0, 2); ZipFile raised something other than BadZipFile after it had
\* read the directory at the end of the stream)
AfterError(f) == {0, IF f.size < 8 THEN f.size ELSE 8, f.size}

\* where log_file_info leaves the stream
OffsetsAfter(f) ==
    CASE f.kind \in {"xlsx", "zip_other"} -> {AfterZipTest(f)}
      [] f.kind \in {"pk_corrupt", "legacy", "unknown"} -> {AfterSignature(f)}
      [] OTHER -> AfterError(f)

\* a classifier whose probe lets an error of the stream out
ProbeUncaught(f) ==
    [status |-> IF f.kind = "probe_error" THEN "raised" ELSE "returned",
     info |-> LogFileInfo(f)]

\* the call of log_file_info: every Exception of the probe is caught
Probe(f) == [status |-> "returned", info |-> LogFileInfo(f)]

InitProbe ==
    /\ file \in SinkFiles
    /\ outcome = NoOutcome
    /\ trace = <<>>
    /\ log = <<>>
    /\ epc = "ready"
    /\ sink = [pc |-> "ready", info |-> <<>>, outcome |-> NoOutcome]
    /\ pos = 0
    /\ calls = <<>>
    /\ NoWorkbook

\* debug_logger.log_file_info(file)
LogFileInfoCall ==
    /\ sink.pc = "ready"
    /\ LET r == Probe(file)
       IN  /\ sink' = [sink EXCEPT !.pc = r.status, !.info = r.info]
           /\ trace' = IF r.status = "returned" THEN Append(trace, FileInfoEntry(file))
                       ELSE trace
    /\ pos' \in OffsetsAfter(file)
    /\ UNCHANGED <<file, outcome, log, epc, requests, calls>>
    /\ UNCHANGED pvars

NextProbe == LogFileInfoCall

SpecProbe == InitProbe /\ [][NextProbe]_vars

\* C23: when log_file_info is over, the stream stands at offset 0,
\* whichever way the probe went.
C23_PositionRestored == sink.pc # "ready" => pos = 0

-----------------------------------------------------------------------------
-----------------------------------------------------------------------------
\* load_workbook went through: the file is a workbook
Loaded == epc = "done" /\ file.kind = "xlsx"

SheetNames == [i \in 1..Len(file.sheets) |-> file.sheets[i].name]

\* the name holds both words, whatever the case of its letters
Matches(name) ==
    /\ \E i \in 1..Len(name) : name[i] \in {"county", "County", "COUNTY"}
    /\ \E i \in 1..Len(name) : name[i] \in {"trend", "Trend", "TREND"}

\* the first sheet in list order whose name matches, 0 when there is none
FirstMatch ==
    IF \E i \in 1..Len(SheetNames) : Matches(SheetNames[i])
    THEN CHOOSE i \in 1..Len(SheetNames) :
             Matches(SheetNames[i]) /\ \A j \in 1..(i - 1) : ~Matches(SheetNames[j])
    ELSE 0

\* the sheet log_sheet_detection reported as selected
ReportedSheet ==
    IF \E k \in 1..Len(trace) : trace[k].step = "sheet_detection"
    THEN trace[CHOOSE k \in 1..Len(trace) : trace[k].step = "sheet_detection"].row
    ELSE 0

\* C25: of a workbook the extractor reads the first sheet in list order
\* whose lowercased name holds 'county' and 'trend': the records are those
\* of that sheet; without such a sheet the call returns None and does not
\* raise; and log_sheet_detection reports that same sheet as selected.
C25_FirstMatchingSheet ==
    Loaded =>
        /\ ReportedSheet = FirstMatch
        /\ FirstMatch = 0 => (outcome.status = "none" /\ outcome.data = <<>>)
        /\ (FirstMatch # 0 /\ outcome.status = "data") =>
               LET rows == file.sheets[FirstMatch].rows
                   above == SubSeq(rows, 1, FirstGap(rows) - 1)
               IN  Years(outcome.data) = AnchorYears(SelectSeq(above, AnchorsNumeric))

\* a workbook with two sheets whose names match: the records of the first
C25_Witness ==
    /\ Loaded
    /\ Cardinality({i \in 1..Len(SheetNames) : Matches(SheetNames[i])}) = 2
    /\ outcome.status = "data"
    /\ outcome.data # <<>>
    /\ Years(outcome.data) = AnchorYears(file.sheets[FirstMatch].rows)
    /\ Years(outcome.data) # AnchorYears(file.sheets[Len(file.sheets)].rows)

-----------------------------------------------------------------------------
\* the row decisions of the trace, in the order they were logged
RowDecisions == SelectSeq(trace, LAMBDA e : e.step = "row")

Summaries == SelectSeq(trace, LAMBDA e : e.step = "summary")

\* the rows the loop went into: down to the first row with an empty anchor,
\* or to the first row whose record could not be made, if there is one above
LastChecked ==
    IF \E i \in 1..Len(TrendRows) :
           AnchorEmpty(TrendRows[i]) \/ (AnchorsNumeric(TrendRows[i]) /\ TextMetric(TrendRows[i]))
    THEN CHOOSE i \in 1..Len(TrendRows) :
             /\ AnchorEmpty(TrendRows[i]) \/ (AnchorsNumeric(TrendRows[i]) /\ TextMetric(TrendRows[i]))
             /\ \A j \in 1..(i - 1) :
                    ~(AnchorEmpty(TrendRows[j]) \/ (AnchorsNumeric(TrendRows[j]) /\ TextMetric(TrendRows[j])))
    ELSE Len(TrendRows)

\* C26: the trace of a call starts with the classification of its file
\* (the reset came first); it holds one row decision for each row checked,
\* in row order, none after a stop; and after the last row decision one
\* summary, whose rows checked is the number of row decisions and whose rows
\* extracted is the number of records returned.
C26_DiagnosticsProtocol ==
    Scanned =>
        /\ trace # <<>> /\ trace[1].step = "file_info"
        /\ \A k \in 2..Len(trace) : trace[k].step # "file_info"
        /\ Len(RowDecisions) = LastChecked
        /\ \A k \in 1..Len(RowDecisions) :
               /\ RowDecisions[k].row = FirstDataRow + k - 1
               /\ RowDecisions[k].action \in {"extract", "skip", "stop"}
               /\ RowDecisions[k].action = "stop" => k = Len(RowDecisions)
        /\ Len(Summaries) = 1
        /\ trace[Len(trace)].step = "summary"
        /\ trace[Len(trace)].checked = Len(RowDecisions)
        /\ trace[Len(trace)].extracted = Len(outcome.data)

-----------------------------------------------------------------------------
\* the file name without its last part, the .xlsx or .xls suffix
Stem(toks) == Join(SubSeq(toks, 1, Len(toks) - 1))

\* C27: every record extracted from a county file whose name the extension
\* check accepts has for county the file name without its .xlsx or .xls
\* suffix, in whatever case the suffix is written, and with everything
\* before the suffix as it is.
C27_CountyFromFileName ==
    (epc = "done" /\ AllowedFile(file.filename)) =>
        \A k \in 1..Len(outcome.data) :
            outcome.data[k].county = PyText(Stem(file.filename))

-----------------------------------------------------------------------------
\* the row number carried to the next call is a free row of the ledger
\* sheet, the one a scan of column A from row 2 gives
Truthful(sheet, row) ==
    /\ Cell(sheet, BlankRaw, row, "A") = PyNone
    /\ row = FindNextEmptyRow(sheet)

\* C28: after find_next_empty_row and after every add_county_data_to_raw of
\* a batch next_row is a row with an empty column A, the row a fresh scan
\* of column A gives, and the rows a call writes held nothing in column A.
C28_NextRowTruthful ==
    [][ppc' = "loaded" =>
          /\ Truthful(raw', next_row')
          /\ (FileStep /\ YieldedData) =>
                 \A k \in 0..(Len(outcome'.data) - 1) :
                     Cell(raw, BlankRaw, next_row + k, "A") = PyNone]_vars

-----------------------------------------------------------------------------
\* C29: every lookup formula of the lookup sheet searches the ledger over a
\* range 2..m with m at least 2, also after a run on a ledger of the header
\* row only in which no county file gave records.
C29_RangeWellFormed ==
    \A i \in 1..Len(counties) : \A c \in XCols :
        counties[i].X[c].k = "formula" =>
            \E m \in 2..(Len(raw) + 2) :
                counties[i].X[c] = XLookup(i + 1, XLookupMappings[c], m)

\* formulas were written for a keyed lookup row while the ledger held its
\* header row only and no county file of the batch gave records
C29_Witness ==
    /\ ppc = "restored"
    /\ has_counties
    /\ raw0 = <<>>
    /\ batch = <<>>
    /\ \E i \in 1..Len(counties) : Truthy(counties[i].E) /\ SearchesUpTo(i, 2)

-----------------------------------------------------------------------------
(* Calls of extract_county_data side by side, as the requests of            *)
(* /debug/extraction-test make them: every call talks to the one            *)
(* debug_logger of the module, and the trace is read when the call is back. *)

\* the county files of the calls
TraceFiles == {BurkeFile(PyInt(2010)), PolkFile, UnknownFile}

\* what a call gives the sink to keep, in the order of its calls
EntriesOf(f) == ExtractCountyData(f).trace

\* a call before its reset_trace
NewCall(f) == [file |-> f, at |-> 0, over |-> FALSE, read |-> <<>>]

InitTrace ==
    /\ file = File(<<>>, "unknown", 0, <<>>)
    /\ outcome = NoOutcome
    /\ trace = <<>>
    /\ log = <<>>
    /\ epc = "ready"
    /\ sink = NoSink
    /\ pos = 0
    /\ NoWorkbook
    /\ calls \in [1..MaxRequests -> {NewCall(f) : f \in TraceFiles}]

\* debug_logger.reset_trace() of call c: extraction_trace = []
ResetTrace(c) ==
    /\ calls[c].at = 0
    /\ trace' = <<>>
    /\ calls' = [calls EXCEPT ![c].at = 1]
    /\ UNCHANGED <<file, outcome, log, epc, sink, requests, pos>>
    /\ UNCHANGED pvars

\* the next log_... call of call c: extraction_trace.append(...)
LogEntry(c) ==
    /\ calls[c].at \in 1..Len(EntriesOf(calls[c].file))
    /\ trace' = Append(trace, EntriesOf(calls[c].file)[calls[c].at])
    /\ calls' = [calls EXCEPT ![c].at = @ + 1]
    /\ UNCHANGED <<file, outcome, log, epc, sink, requests, pos>>
    /\ UNCHANGED pvars

\* call c is back and debug_logger.get_full_trace() is read
ReadTrace(c) ==
    /\ calls[c].at = Len(EntriesOf(calls[c].file)) + 1
    /\ ~calls[c].over
    /\ calls' = [calls EXCEPT ![c].over = TRUE, ![c].read = trace]
    /\ UNCHANGED <<file, outcome, trace, log, epc, sink, requests, pos>>
    /\ UNCHANGED pvars

NextTrace ==
    \E c \in 1..MaxRequests :
        \/ ResetTrace(c)
        \/ LogEntry(c)
        \/ ReadTrace(c)

SpecTrace == InitTrace /\ [][NextTrace]_vars

\* C30: the trace read when a call is back holds the entries logged for the
\* file of that call, all of them and no others, whatever the other call
\* did in between.
C30_TraceIsolated ==
    \A c \in 1..MaxRequests :
        calls[c].over => calls[c].read = EntriesOf(calls[c].file)

====
